---- MODULE Spec2Model ----
(***************************************************************************)
(* PyLig4: a terminal Connect-Four.  The model covers the Board class      *)
(* (Board.py: construction, drop_piece, check_for_win, print_board,        *)
(*                                                                         *)
(* reset_board), the style loaders of Board.py and Piece.py with their     *)
(* reload functions, and the turn loop of main.py.                         *)
(*                                                                         *)
(* The specifications share the variables:                                 *)
(*   Spec        any caller of a freshly constructed Board                 *)
(*   SpecWin     check_for_win applied to arbitrary grids                  *)
(*   SpecGame    the turn loop of main.py driving its Board                *)
(*   SpecSolo    a caller dropping one token, until the columns are full   *)
(*   SpecSmall   any caller of a small board, until the columns are full   *)
(*   SpecRender  print_board applied to arbitrary grids and cell styles    *)
(*   SpecLoad    the import-time style load on arbitrary directories       *)
(*   SpecReload  reload_styles while a Board exists and the files change   *)
(***************************************************************************)
EXTENDS Integers, Sequences, FiniteSets, TLC

\* ---------------------------------------------------------------- bounds
\* Largest board explored (main.py builds 6 x 7; the methods take any size).
MaxRows == 4
MaxCols == 4
\* Most tokens a board of Spec / SpecGame ever holds.
MaxPieces == 4
\* Most cells of a board of SpecSmall and SpecRender, whose every cell may
\* hold a token.
MaxCells == 6
\* Widest cell glyph of SpecRender.
MaxWidth == 3
\* Most *.json files in a styles folder.
MaxFiles == 2

\* ------------------------------------------------------------- constants
\* Length of a winning run: range(4), and end cell = start + 3 steps.
RunLen == 4

\* Python's None: the empty cell, and the value of a method without return.
None == "None"

\* The strings a caller passes as piece.
Tokens == {"X", "O"}

Cell == Tokens \cup {None}

\* The (one, two) glyph pairs a piece style can give: distinct or equal,
\* since the loader only requires both keys to be present.
PieceStyles == {<<"X", "O">>, <<"X", "X">>}

VARIABLES
    rows,            \* Board.rows
    columns,         \* Board.columns
    board,           \* Board.board: board[r][c], r in 0..rows-1, c in 0..columns-1
    op,              \* the Board method called last ("__init__" after construction)
    argColumn,       \* its column argument (None when it has none)
    argPiece,        \* its piece argument (None when it has none)
    ret,             \* its return value (None when it returns nothing)
    before,          \* history: the grid on entry to that call
    dropped,         \* history: per column, successful drops since it was empty
    board_style,     \* history: the style name the Board was constructed with
    parts,           \* Board._parts
    out,             \* the lines that call printed
    required,        \* the loader's required keys: Board.py's or Piece.py's
    directory,       \* the styles directory: its *.json files, in glob order
    STYLE_MAP,       \* _STYLE_MAP (_PIECE_STYLE_MAP in Piece.py)
    raised,          \* the exception the last load, reload or construction raised
    reloaded,        \* history: a reload succeeded since the Board was constructed
    pc,              \* main.py: position in the turn loop ("api" outside main.py)
    piece_one,       \* main.py: pieces.one
    piece_two,       \* main.py: pieces.two
    current_player,  \* main.py
    current_piece,   \* main.py
    choice,          \* main.py
    game_is_on,      \* main.py
    win_checked      \* history: main.py called check_for_win since its last successful drop

boardVars == <<rows, columns, board, op, argColumn, argPiece, ret, before, dropped,
               board_style, parts, out>>
styleVars == <<required, directory, STYLE_MAP, raised, reloaded>>
gameVars == <<pc, piece_one, piece_two, current_player, current_piece, choice, game_is_on, win_checked>>
vars == <<rows, columns, board, op, argColumn, argPiece, ret, before, dropped,
          board_style, parts, out, required, directory, STYLE_MAP, raised, reloaded,
          pc, piece_one, piece_two, current_player, current_piece, choice, game_is_on, win_checked>>

\* ------------------------------------- style loading (Board.py, Piece.py)
\* required = {"top", "mid", "bottom"} in Board.py, {"one", "two"} in Piece.py
CellKeys == {"top", "mid", "bottom"}
PieceKeys == {"one", "two"}

\* A JSON value of a style file: a string, or an object of strings.
JStr(g) == [str |-> g]
JObj(o) == [obj |-> o]

\* No exception, and the exceptions of the loaders and the constructors.
NoError == [type |-> "none", what |-> "", name |-> "", keys |-> {}]
Raise(type, what, name, keys) == [type |-> type, what |-> what, name |-> name, keys |-> keys]

\* style_map = {}
EmptyMap == [n \in {} |-> [k \in {} |-> ""]]

\* The keys of a JSON object given as its <<key, value>> items in file order,
\* and the value of key k.
ItemKeys(items) == {items[i][1] : i \in 1..Len(items)}
ItemValue(items, k) ==
    LET v == items[CHOOSE i \in 1..Len(items) : items[i][1] = k][2]
    IN  IF "str" \in DOMAIN v THEN v.str ELSE v.obj

\* Case B: for style_name, parts in data.items(), from item i on.  acc is the
\* style_map so far and the exception raised, if any.
RECURSIVE LoadBundle(_, _, _, _)
LoadBundle(acc, items, i, Q) ==
    IF i > Len(items) \/ acc.raised # NoError THEN acc
    ELSE LET style_name == items[i][1]
             value == items[i][2]
         IN  IF style_name \in DOMAIN acc.style_map
               THEN [acc EXCEPT !.raised = Raise("ValueError", "duplicate", style_name, {})]
             ELSE IF "obj" \notin DOMAIN value
               THEN [acc EXCEPT !.raised = Raise("AttributeError", "keys", style_name, {})]
             ELSE IF Q \ DOMAIN value.obj # {}
               THEN [acc EXCEPT !.raised =
                        Raise("ValueError", "missing keys", style_name, Q \ DOMAIN value.obj)]
             ELSE LoadBundle(
                      [acc EXCEPT !.style_map =
                          (style_name :> [k \in Q |-> value.obj[k]]) @@ @],
                      items, i + 1, Q)

\* The body of the loop over the files: Case A when the root object has the
\* required keys (the style is named by the file stem), Case B otherwise.
LoadFile(acc, fp, Q) ==
    IF Q \subseteq ItemKeys(fp.items)
    THEN IF fp.stem \in DOMAIN acc.style_map
           THEN [acc EXCEPT !.raised = Raise("ValueError", "duplicate", fp.stem, {})]
           ELSE [acc EXCEPT !.style_map =
                    (fp.stem :> [k \in Q |-> ItemValue(fp.items, k)]) @@ @]
    ELSE LoadBundle(acc, fp.items, 1, Q)

\* for fp in directory.glob("*.json"), from file i on.
RECURSIVE LoadFiles(_, _, _, _)
LoadFiles(acc, files, i, Q) ==
    IF i > Len(files) \/ acc.raised # NoError THEN acc
    ELSE LoadFiles(LoadFile(acc, files[i], Q), files, i + 1, Q)

\* The test for "default" that ends the loaders.
\* (as written without it)
DefaultTestSkipped(acc) == acc
DefaultTest(acc) ==
    IF acc.raised = NoError /\ "default" \notin DOMAIN acc.style_map
    THEN [acc EXCEPT !.raised = Raise("ValueError", "no default", "default", {})]
    ELSE acc

\* _load_cell_styles and _load_piece_styles, which differ in the required
\* keys Q only: the style_map built so far and the exception raised, NoError
\* when the style_map is returned.
LoadStyles(dir, Q) ==
    IF ~dir.is_dir
    THEN [style_map |-> EmptyMap, raised |-> Raise("FileNotFoundError", "no folder", "", {})]
    ELSE DefaultTest(LoadFiles([style_map |-> EmptyMap, raised |-> NoError], dir.files, 1, Q))

load_cell_styles(dir) == LoadStyles(dir, CellKeys)
load_piece_styles(dir) == LoadStyles(dir, PieceKeys)

\* The loader of the module whose required keys are Q.
LoaderOf(Q, dir) == IF Q = CellKeys THEN load_cell_styles(dir) ELSE load_piece_styles(dir)

\* The glyphs the style files give the keys: two families, so that a file
\* can be told from its edited version.
GlyphTable ==
    << [top |-> "+--+", mid |-> "|  |", bottom |-> "+--+", one |-> "X", two |-> "O"],
       [top |-> ".--.", mid |-> "(  )", bottom |-> "'--'", one |-> "#", two |-> "@"] >>

\* A style record with the keys K, of glyph family f.
StyleRecord(K, f) == [k \in K |-> GlyphTable[f][k]]

\* A styles folder whose one file bundles the style "default".
DefaultDirectory(Q) ==
    [is_dir |-> TRUE,
     files |-> << [stem |-> "styles",
                   items |-> << <<"default", JObj(StyleRecord(Q, 1))>> >>] >>]

\* Board.py line 84, _STYLE_MAP = _load_cell_styles(), on that folder.
Imported ==
    /\ required = CellKeys
    /\ directory = DefaultDirectory(CellKeys)
    /\ STYLE_MAP = load_cell_styles(DefaultDirectory(CellKeys)).style_map
    /\ raised = NoError
    /\ reloaded = FALSE

\* ------------------------------------------------------------ Board.py
\* A Python list index: a negative index counts from the end.
PyIdx(i, n) == IF i < 0 THEN i + n ELSE i

\* self.board[r][c]
At(b, R, C, r, c) == b[PyIdx(r, R)][PyIdx(c, C)]

\* [[None for _ in range(columns)] for _ in range(rows)]
\* (as written with range(columns - 1))
EmptyBoardShort(R, C) == [r \in 0..(R - 1) |-> [c \in 0..(C - 2) |-> None]]
EmptyBoard(R, C) == [r \in 0..(R - 1) |-> [c \in 0..(C - 1) |-> None]]

\* if not 0 <= column < self.columns
\* (as written without the lower bound)
ColumnBelowMax(column, C) == column < C
ColumnInRange(column, C) == 0 <= column /\ column < C

\* for r in range(self.rows - 1, -1, -1): the first r, from r down, whose
\* cell is None; -1 when the loop completes.
\* (as written with range(self.rows): the scan runs from the top row down)
RECURSIVE DropScanDown(_, _, _, _, _)
DropScanDown(b, R, C, column, r) ==
    IF r > R - 1 THEN -1
    ELSE IF At(b, R, C, r, column) = None THEN r
    ELSE DropScanDown(b, R, C, column, r + 1)
DropScanFromTop(b, R, C, column, r) == DropScanDown(b, R, C, column, 0)
\* (as written without the `is None` test: the bottom row is always taken)
DropScanNoCheck(b, R, C, column, r) == r
RECURSIVE DropScan(_, _, _, _, _)
DropScan(b, R, C, column, r) ==
    IF r < 0 THEN -1
    ELSE IF At(b, R, C, r, column) = None THEN r
    ELSE DropScan(b, R, C, column, r - 1)

\* The row drop_piece writes, -1 when it returns False.
DropRow(b, R, C, column) ==
    IF ~ColumnInRange(column, C) THEN -1 ELSE DropScan(b, R, C, column, R - 1)

\* self.board[r][column] = piece
\* (as written without the return inside the loop: every empty cell of the
\* column, from row r up, is written)
SetCellFillColumn(b, R, C, r, column, piece) ==
    [q \in DOMAIN b |->
        IF q <= r THEN [b[q] EXCEPT ![PyIdx(column, C)] = piece] ELSE b[q]]
SetCell(b, R, C, r, column, piece) ==
    IF r >= 0 THEN [b EXCEPT ![PyIdx(r, R)][PyIdx(column, C)] = piece] ELSE b

\* directions = [(0, 1), (1, 0), (1, 1), (1, -1)]
\* (as written without the vertical direction)
directionsNoVertical == <<<<0, 1>>, <<1, 1>>, <<1, -1>>>>
directions == <<<<0, 1>>, <<1, 0>>, <<1, 1>>, <<1, -1>>>>

\* 0 <= end_r < self.rows and 0 <= end_c < self.columns
Fits(R, C, r, c, dr, dc) ==
    LET end_r == r + (RunLen - 1) * dr
        end_c == c + (RunLen - 1) * dc
    IN  0 <= end_r /\ end_r < R /\ 0 <= end_c /\ end_c < C

\* all(self.board[r + i * dr][c + i * dc] == piece for i in range(4))
\* (as written with range(3))
AllMatchThree(b, R, C, r, c, dr, dc, piece) ==
    \A i \in 0..(RunLen - 2) : At(b, R, C, r + i * dr, c + i * dc) = piece
AllMatch(b, R, C, r, c, dr, dc, piece) ==
    \A i \in 0..(RunLen - 1) : At(b, R, C, r + i * dr, c + i * dc) = piece

\* check_for_win: the scan over r, c and the directions, True at the first hit.
CheckForWin(b, R, C, piece) ==
    \E r \in 0..(R - 1) : \E c \in 0..(C - 1) :
        /\ b[r][c] = piece
        /\ \E d \in 1..Len(directions) :
               LET dr == directions[d][1]
                   dc == directions[d][2]
               IN  /\ Fits(R, C, r, c, dr, dc)
                   /\ AllMatch(b, R, C, r, c, dr, dc, piece)

\* Number of tokens on a grid.
Occupied(b, R, C) ==
    Cardinality({k \in 0..(R * C - 1) : b[k \div C][k % C] # None})

\* str(n) of an integer n >= 0.
Digits == "0123456789"
RECURSIVE Str(_)
Str(n) ==
    IF n < 10 THEN SubSeq(Digits, n + 1, n + 1)
    ELSE Str(n \div 10) \o SubSeq(Digits, (n % 10) + 1, (n % 10) + 1)

\* " " * n
RECURSIVE Spaces(_)
Spaces(n) == IF n <= 0 THEN "" ELSE " " \o Spaces(n - 1)

\* " ".join(items), from item i on.
RECURSIVE JoinFrom(_, _)
JoinFrom(items, i) ==
    IF i > Len(items) THEN ""
    ELSE IF i = Len(items) THEN items[i]
    ELSE items[i] \o " " \o JoinFrom(items, i + 1)
Join(items) == JoinFrom(items, 1)

\* f"{r:>{w}}"
RJust(s, w) == Spaces(w - Len(s)) \o s

\* str.center(w): of an odd margin the larger half goes left when w is odd.
Center(s, w) ==
    LET marg == w - Len(s)
        left == (marg \div 2) + (IF marg % 2 = 1 /\ w % 2 = 1 THEN 1 ELSE 0)
    IN  IF marg <= 0 THEN s ELSE Spaces(left) \o s \o Spaces(marg - left)

\* center_idx = len(mid_part) // 2
\* (as written with (len(mid_part) - 1) // 2)
CenterIdxBelow(mid_part) == (Len(mid_part) - 1) \div 2
CenterIdx(mid_part) == Len(mid_part) \div 2

\* mid_part[:center_idx] + (str(c) if c is not None else " ")
\*                       + mid_part[center_idx + 1:]
RenderedMid(mid_part, c) ==
    LET center_idx == CenterIdx(mid_part) IN
    SubSeq(mid_part, 1, center_idx)
        \o (IF c # None THEN c ELSE " ")
        \o SubSeq(mid_part, center_idx + 2, Len(mid_part))

\* " ".join(part for _ in logical_row)
RECURSIVE Repeated(_, _)
Repeated(part, n) ==
    IF n <= 0 THEN "" ELSE IF n = 1 THEN part ELSE part \o " " \o Repeated(part, n - 1)

\* " ".join(rendered_mids), from cell i of the row on.
RECURSIVE RenderedMids(_, _, _, _)
RenderedMids(mid_part, logical_row, i, n) ==
    IF i >= n THEN ""
    ELSE IF i = n - 1 THEN RenderedMid(mid_part, logical_row[i])
    ELSE RenderedMid(mid_part, logical_row[i]) \o " "
             \o RenderedMids(mid_part, logical_row, i + 1, n)

\* for r, logical_row in enumerate(self.board): the three lines of each of
\* the rows r..n-1.  pad is row_prefix_padding, w is row_label_width.
RECURSIVE RowsFrom(_, _, _, _, _, _)
RowsFrom(b, r, n, P, pad, w) ==
    IF r >= n THEN <<>>
    ELSE LET cells == Cardinality(DOMAIN b[r]) IN
         << pad \o Repeated(P.top, cells),
            RJust(Str(r), w) \o ": " \o RenderedMids(P.mid, b[r], 0, cells),
            pad \o Repeated(P.bottom, cells) >>
             \o RowsFrom(b, r + 1, n, P, pad, w)

\* Everything print_board prints: the rows, a blank line, the column footer.
PrintLines(b, R, C, P) ==
    LET row_label_width == Len(Str(R - 1))
        row_prefix_padding == Spaces(row_label_width + 2)
        cell_width == Len(P.mid)
        col_labels == [i \in 1..C |-> Center(Str(i - 1), cell_width)]
    IN  RowsFrom(b, 0, Cardinality(DOMAIN b), P, row_prefix_padding, row_label_width)
            \o << "", row_prefix_padding \o Join(col_labels) >>

\* Board.__init__: rows, columns, the parts of the named style of the live
\* map, and an all-None grid.
BoardInitStyle(R, C, name) ==
    /\ rows = R
    /\ columns = C
    /\ board_style = name
    /\ parts = STYLE_MAP[name]
    /\ board = EmptyBoard(R, C)
    /\ op = "__init__"
    /\ argColumn = None
    /\ argPiece = None
    /\ ret = None
    /\ before = EmptyBoard(R, C)
    /\ dropped = [c \in 0..(C - 1) |-> 0]
    /\ out = <<>>

\* Board(color, R, C): style = "default".
BoardInit(R, C) == BoardInitStyle(R, C, "default")

\* Board.drop_piece(column, piece)
drop_piece(column, piece) ==
    LET r == DropRow(board, rows, columns, column) IN
    /\ board' = SetCell(board, rows, columns, r, column, piece)
    /\ ret' = (r >= 0)
    /\ op' = "drop_piece"
    /\ argColumn' = column
    /\ argPiece' = piece
    /\ before' = board
    /\ out' = <<>>
    /\ dropped' = IF r >= 0 THEN [dropped EXCEPT ![PyIdx(column, columns)] = @ + 1]
                  ELSE dropped
    /\ UNCHANGED <<board_style, parts, rows, columns>>

\* Board.check_for_win(piece)
check_for_win(piece) ==
    /\ ret' = CheckForWin(board, rows, columns, piece)
    /\ op' = "check_for_win"
    /\ argColumn' = None
    /\ argPiece' = piece
    /\ before' = board
    /\ out' = <<>>
    /\ UNCHANGED <<board_style, parts, rows, columns, board, dropped>>

\* (print_board as written if it blanked the empty cells of the grid itself
\* instead of the rendered copy)
print_board_in_place ==
    /\ board' = [r \in DOMAIN board |->
                    [c \in DOMAIN board[r] |->
                        IF board[r][c] = None THEN " " ELSE board[r][c]]]
    /\ ret' = None
    /\ op' = "print_board"
    /\ argColumn' = None
    /\ argPiece' = None
    /\ before' = board
    /\ out' = PrintLines(board, rows, columns, parts)
    /\ UNCHANGED <<board_style, parts, rows, columns, dropped>>

\* Board.print_board(): writes to the terminal only.
print_board ==
    /\ ret' = None
    /\ op' = "print_board"
    /\ argColumn' = None
    /\ argPiece' = None
    /\ before' = board
    /\ out' = PrintLines(board, rows, columns, parts)
    /\ UNCHANGED <<board_style, parts, rows, columns, board, dropped>>

\* (reset_board as written if the new grid were bound to a local name
\* instead of self.board)
reset_board_local ==
    /\ ret' = None
    /\ op' = "reset_board"
    /\ argColumn' = None
    /\ argPiece' = None
    /\ before' = board
    /\ out' = <<>>
    /\ dropped' = [c \in 0..(columns - 1) |-> 0]
    /\ UNCHANGED <<board_style, parts, rows, columns, board>>

\* Board.reset_board()
reset_board ==
    /\ board' = EmptyBoard(rows, columns)
    /\ ret' = None
    /\ op' = "reset_board"
    /\ argColumn' = None
    /\ argPiece' = None
    /\ before' = board
    /\ out' = <<>>
    /\ dropped' = [c \in 0..(columns - 1) |-> 0]
    /\ UNCHANGED <<board_style, parts, rows, columns>>

\* ------------------------------------------------- Spec: any caller
\* The model stops offering a drop that would place token MaxPieces + 1.
DropOffered(room, column) ==
    room \/ DropRow(board, rows, columns, column) < 0

NoGame ==
    /\ pc = "api"
    /\ piece_one = None
    /\ piece_two = None
    /\ current_player = 0
    /\ current_piece = None
    /\ choice = None
    /\ game_is_on = FALSE
    /\ win_checked = TRUE

Init ==
    /\ Imported
    /\ \E R \in 1..MaxRows : \E C \in 1..MaxCols : BoardInit(R, C)
    /\ NoGame

CallDropPiece ==
    LET room == Occupied(board, rows, columns) < MaxPieces IN
    \E column \in (-1)..columns : \E piece \in Tokens :
        /\ DropOffered(room, column)
        /\ drop_piece(column, piece)
        /\ UNCHANGED <<gameVars, styleVars>>

CallCheckForWin ==
    \E piece \in Tokens :
        /\ check_for_win(piece)
        /\ UNCHANGED <<gameVars, styleVars>>

CallPrintBoard ==
    /\ print_board
    /\ UNCHANGED <<gameVars, styleVars>>

CallResetBoard ==
    /\ reset_board
    /\ UNCHANGED <<gameVars, styleVars>>

Next ==
    \/ CallDropPiece
    \/ CallCheckForWin
    \/ CallPrintBoard
    \/ CallResetBoard

Spec == Init /\ [][Next]_vars

TypeOK ==
    /\ rows \in 1..MaxRows
    /\ columns \in 1..MaxCols
    /\ DOMAIN board = 0..(rows - 1)
    /\ \A r \in 0..(rows - 1) : board[r] \in [0..(columns - 1) -> Cell]
    /\ op \in {"__init__", "given", "drop_piece", "check_for_win", "print_board", "reset_board",
              "none", "import", "reload_styles"}
    /\ op \in {"drop_piece", "check_for_win"} => ret \in BOOLEAN
    /\ op = "drop_piece" => argColumn \in (-1)..columns

\* ------------------------------------- SpecWin: check_for_win on any grid
\* The sets of at most k of the cell numbers from..(n - 1).
RECURSIVE CellSets(_, _, _)
CellSets(from, n, k) ==
    IF k = 0 THEN {{}}
    ELSE {{}} \cup UNION {{{p} \cup S : S \in CellSets(p + 1, n, k - 1)} : p \in from..(n - 1)}

\* The grid holding f[k] in cell number k (row k \div C, column k % C).
GridOf(R, C, f) ==
    [r \in 0..(R - 1) |->
        [c \in 0..(C - 1) |-> IF r * C + c \in DOMAIN f THEN f[r * C + c] ELSE None]]

\* A wrong answer of check_for_win shows on the cells of one run, so grids
\* of at most RunLen tokens, placed anywhere, are drawn.  check_for_win only
\* compares tokens, so of two grids that differ by exchanging the two tokens
\* one is drawn: the one whose first token, in cell order, is "X".
InitWin ==
    /\ Imported
    /\ board_style = "default"
    /\ parts = STYLE_MAP["default"]
    /\ out = <<>>
    /\ \E R \in 1..MaxRows : \E C \in 1..MaxCols :
          \E S \in CellSets(0, R * C, RunLen) : \E f \in [S -> Tokens] :
              /\ \A p \in S : (\A q \in S : p <= q) => f[p] = "X"
              /\ rows = R
              /\ columns = C
              /\ board = GridOf(R, C, f)
              /\ before = GridOf(R, C, f)
              /\ dropped = [c \in 0..(C - 1) |-> 0]
    /\ op = "given"
    /\ argColumn = None
    /\ argPiece = None
    /\ ret = None
    /\ NoGame

NextWin == CallCheckForWin

SpecWin == InitWin /\ [][NextWin]_vars

\* ------------------------------------------------ SpecGame: main.py
\* The history of main.py's Board calls: a successful drop awaits its
\* check_for_win.
NoteCall ==
    win_checked' = IF op' = "check_for_win" THEN TRUE
                   ELSE IF op' = "drop_piece" /\ ret' = TRUE THEN FALSE
                   ELSE win_checked

\* main.py lines 6-23: the board, the pieces, player 1 to move.
InitGame ==
    /\ Imported
    /\ \E R \in 1..MaxRows : \E C \in 1..MaxCols : BoardInit(R, C)
    /\ \E style \in PieceStyles :
          /\ piece_one = style[1]
          /\ piece_two = style[2]
          /\ current_piece = style[1]
    /\ current_player = 1
    /\ choice = None
    /\ game_is_on = TRUE
    /\ win_checked = TRUE
    /\ pc = "loop"

\* while game_is_on: clear the screen, board.print_board(), the turn banner.
GamePrint ==
    /\ pc = "loop"
    /\ game_is_on
    /\ print_board
    /\ NoteCall
    /\ pc' = "input"
    /\ UNCHANGED <<piece_one, piece_two, current_player, current_piece, choice, game_is_on>>
    /\ UNCHANGED styleVars

\* int(input(...)) raises ValueError: the message, then continue.
GameInputInvalid ==
    /\ pc = "input"
    /\ pc' = "loop"
    /\ UNCHANGED boardVars
    /\ UNCHANGED <<piece_one, piece_two, current_player, current_piece, choice,
                   game_is_on, win_checked>>
    /\ UNCHANGED styleVars

\* choice = int(input(...)) - 1, for the number n typed.
GameInput ==
    /\ pc = "input"
    /\ LET room == Occupied(board, rows, columns) < MaxPieces IN
       \E n \in 0..(columns + 1) :
          /\ DropOffered(room, n - 1)
          /\ choice' = n - 1
    /\ pc' = "drop"
    /\ UNCHANGED boardVars
    /\ UNCHANGED <<piece_one, piece_two, current_player, current_piece,
                   game_is_on, win_checked>>
    /\ UNCHANGED styleVars

\* (the turn as written if the switch were outside the if)
GameDropAlwaysSwitch ==
    /\ pc = "drop"
    /\ drop_piece(choice, current_piece)
    /\ NoteCall
    /\ IF current_player = 1
          THEN current_player' = 2 /\ current_piece' = piece_two
          ELSE current_player' = 1 /\ current_piece' = piece_one
    /\ pc' = "loop"
    /\ UNCHANGED <<piece_one, piece_two, choice, game_is_on>>
    /\ UNCHANGED styleVars

\* (the turn as written if the loop ended once no cell is left)
GameDropEndsWhenFull ==
    /\ pc = "drop"
    /\ drop_piece(choice, current_piece)
    /\ NoteCall
    /\ IF ret'
          THEN IF current_player = 1
                 THEN current_player' = 2 /\ current_piece' = piece_two
                 ELSE current_player' = 1 /\ current_piece' = piece_one
          ELSE UNCHANGED <<current_player, current_piece>>
    /\ game_is_on' = (Occupied(board', rows, columns) < rows * columns)
    /\ pc' = "loop"
    /\ UNCHANGED <<piece_one, piece_two, choice>>
    /\ UNCHANGED styleVars

\* if board.drop_piece(choice, current_piece): switch the player; else the
\* message.  Then the next iteration.
GameDrop ==
    /\ pc = "drop"
    /\ drop_piece(choice, current_piece)
    /\ NoteCall
    /\ IF ret'
          THEN IF current_player = 1
                 THEN current_player' = 2 /\ current_piece' = piece_two
                 ELSE current_player' = 1 /\ current_piece' = piece_one
          ELSE UNCHANGED <<current_player, current_piece>>
    /\ pc' = "loop"
    /\ UNCHANGED <<piece_one, piece_two, choice, game_is_on>>
    /\ UNCHANGED styleVars

NextGame ==
    \/ GamePrint
    \/ GameInputInvalid
    \/ GameInput
    \/ GameDrop

SpecGame == InitGame /\ [][NextGame]_vars

\* ------------------------------------- SpecSolo: one token, no token cap
\* A caller who drops one and the same token: every drop
\* passes the token the grid already holds, at a column of the board, so the
\* columns fill to the top.
CallDropSame ==
    \E column \in 0..(columns - 1) : \E piece \in Tokens :
        /\ \A r \in 0..(rows - 1) : \A c \in 0..(columns - 1) :
               board[r][c] \in {None, piece}
        /\ drop_piece(column, piece)
        /\ UNCHANGED <<gameVars, styleVars>>

NextSolo ==
    \/ CallDropSame
    \/ CallCheckForWin

SpecSolo == Init /\ [][NextSolo]_vars

\* ---------------------------------- SpecSmall: small boards, no token cap
\* Any caller of a board of at most MaxCells cells, of any shape: both
\* tokens, and drops until every column is full.
InitSmall ==
    /\ Imported
    /\ \E R \in 1..MaxCells : \E C \in 1..MaxCells :
          /\ R * C <= MaxCells
          /\ BoardInit(R, C)
    /\ NoGame

CallDropAny ==
    \E column \in (-1)..columns : \E piece \in Tokens :
        /\ drop_piece(column, piece)
        /\ UNCHANGED <<gameVars, styleVars>>

NextSmall ==
    \/ CallDropAny
    \/ CallCheckForWin
    \/ CallPrintBoard
    \/ CallResetBoard

SpecSmall == InitSmall /\ [][NextSmall]_vars

\* ------------------------------- SpecRender: print_board on any grid
\* The tokens of the grids drawn: the loaders accept a piece glyph of any
\* length.
RenderTokens == {"X", "<>"}

\* The cell glyphs drawn are the first w characters of these.
RenderGlyphs == [top |-> ".-=~^-=.", mid |-> "[_:|;,_]", bottom |-> "`*+~=+*'"]

\* A styles folder whose one file is the single style "default", w wide.
RenderDirectory(w) ==
    [is_dir |-> TRUE,
     files |-> << [stem |-> "default",
                   items |-> << <<"top", JStr(SubSeq(RenderGlyphs.top, 1, w))>>,
                                <<"mid", JStr(SubSeq(RenderGlyphs.mid, 1, w))>>,
                                <<"bottom", JStr(SubSeq(RenderGlyphs.bottom, 1, w))>> >>] >>]

\* A Board of the imported style "default" whose grid holds any tokens, or
\* none, in any cells.
InitRender ==
    /\ \E w \in 1..MaxWidth :
          /\ directory = RenderDirectory(w)
          /\ STYLE_MAP = load_cell_styles(RenderDirectory(w)).style_map
    /\ required = CellKeys
    /\ raised = NoError
    /\ reloaded = FALSE
    /\ board_style = "default"
    /\ parts = STYLE_MAP["default"]
    /\ out = <<>>
    /\ \E R \in 1..MaxCells : \E C \in 1..MaxCells :
          /\ R * C <= MaxCells
          /\ \E f \in [0..(R * C - 1) -> RenderTokens \cup {None}] :
                /\ rows = R
                /\ columns = C
                /\ board = GridOf(R, C, f)
                /\ before = GridOf(R, C, f)
                /\ dropped = [c \in 0..(C - 1) |-> 0]
    /\ op = "given"
    /\ argColumn = None
    /\ argPiece = None
    /\ ret = None
    /\ NoGame

NextRender == CallPrintBoard

SpecRender == InitRender /\ [][NextRender]_vars

\* ------------------------------- SpecLoad: the load at import time
\* The style names the files drawn define.
StyleNames == {"default", "alt"}

\* The order of the keys in a file drawn, and the stem of the i-th file of a
\* folder when it is a bundle.
KeyOrder == <<"top", "mid", "bottom", "one", "two">>
BundleStems == <<"a", "b", "c", "d">>

\* The key sets of the records drawn for the required keys Q: all of them,
\* all but one, none.
DrawnKeySets(Q) == {Q, {}} \cup {Q \ {k} : k \in Q \cap {"mid", "one", "two"}}

\* The single-style file stem.json holding the record rec at its root.
SingleFile(stem, rec) ==
    LET ks == SelectSeq(KeyOrder, LAMBDA k : k \in DOMAIN rec)
    IN  [stem |-> stem, items |-> [i \in 1..Len(ks) |-> <<ks[i], JStr(rec[ks[i]])>>]]

\* The bundles of at most `most` styles with records of recs, the names in
\* any order; a bundle gets its stem from its place in the folder.
BundleFiles(recs, most) ==
    UNION {{[stem |-> "", items |-> [i \in 1..n |-> <<ns[i], JObj(rs[i])>>]] :
               ns \in {f \in [1..n -> StyleNames] : \A i, j \in 1..n : i # j => f[i] # f[j]},
               rs \in [1..n -> recs]} :
           n \in 0..most}

\* The files drawn: single-style files named after a style, and bundles.
DrawnFiles(recs, most) ==
    {SingleFile(n, rec) : n \in StyleNames, rec \in {q \in recs : DOMAIN q # {}}}
        \cup BundleFiles(recs, most)

\* File f as the i-th file of a folder, and: no two files of the folder have
\* the same name.
FileAt(f, i) == IF f.stem = "" THEN [f EXCEPT !.stem = BundleStems[i]] ELSE f
StemsDistinct(fs) == \A i, j \in DOMAIN fs : i # j => fs[i].stem # fs[j].stem

\* The folders of at most `most` of these files, in any glob order; and the
\* missing folder.
Directories(files, most) ==
    {[is_dir |-> FALSE, files |-> <<>>]} \cup
    {d \in {[is_dir |-> TRUE, files |-> [i \in DOMAIN fs |-> FileAt(fs[i], i)]] :
                fs \in UNION {[1..n -> files] : n \in 0..most}} :
        StemsDistinct(d.files)}

\* Before the module is imported there is no Board.
NoBoard ==
    /\ rows = 0
    /\ columns = 0
    /\ board = EmptyBoard(0, 0)
    /\ before = EmptyBoard(0, 0)
    /\ dropped = [c \in {} |-> 0]
    /\ op = "none"
    /\ argColumn = None
    /\ argPiece = None
    /\ ret = None
    /\ board_style = None
    /\ parts = [k \in {} |-> ""]
    /\ out = <<>>

\* Board.py or Piece.py is about to be imported, its styles folder holding
\* any of the folders drawn.
InitLoad ==
    /\ \E Q \in {CellKeys, PieceKeys} :
          /\ required = Q
          /\ directory \in Directories(
                 DrawnFiles({StyleRecord(K, 1) : K \in DrawnKeySets(Q)}, Cardinality(StyleNames)),
                 MaxFiles)
    /\ STYLE_MAP = EmptyMap
    /\ raised = NoError
    /\ reloaded = FALSE
    /\ NoBoard
    /\ NoGame

\* _STYLE_MAP = _load_cell_styles() (Board.py line 84, Piece.py line 67): the
\* name is bound when the loader returns, and stays unbound when it raises.
ImportModule ==
    /\ op = "none"
    /\ LET res == LoaderOf(required, directory) IN
          /\ raised' = res.raised
          /\ STYLE_MAP' = IF res.raised = NoError THEN res.style_map ELSE STYLE_MAP
    /\ op' = "import"
    /\ UNCHANGED <<rows, columns, board, argColumn, argPiece, ret, before, dropped,
                   board_style, parts, out>>
    /\ UNCHANGED <<required, directory, reloaded>>
    /\ UNCHANGED gameVars

NextLoad == ImportModule

SpecLoad == InitLoad /\ [][NextLoad]_vars

\* --------------------- SpecReload: reload while the files are edited
\* The files of the folder while the program runs: default.json, a single
\* style of either glyph family or one that lacks keys, and bundles of one
\* style: "alt", complete or not, or a second "default".
ReloadFiles(Q) ==
    {SingleFile("default", StyleRecord(Q, f)) : f \in 1..2}
        \cup {SingleFile("default", StyleRecord(K, 1)) : K \in DrawnKeySets(Q) \ {Q, {}}}
        \cup {[stem |-> "", items |-> << <<"alt", JObj(StyleRecord(K, 1))>> >>] :
                 K \in DrawnKeySets(Q) \ {{}}}
        \cup {[stem |-> "", items |-> << <<"default", JObj(StyleRecord(Q, 2))>> >>]}

\* The module was imported from a folder that loads; for Board.py, a Board
\* of any loaded style exists.
InitReload ==
    /\ \E Q \in {CellKeys, PieceKeys} :
          /\ required = Q
          /\ directory \in {d \in Directories(ReloadFiles(Q), MaxFiles) :
                                LoaderOf(Q, d).raised = NoError}
    /\ STYLE_MAP = LoaderOf(required, directory).style_map
    /\ raised = NoError
    /\ reloaded = FALSE
    /\ IF required = CellKeys
          THEN \E name \in DOMAIN STYLE_MAP : BoardInitStyle(1, 2, name)
          ELSE NoBoard
    /\ NoGame

\* The folders one change away from dir: the folder removed or created, its
\* last file removed, a file added, a file replaced.
Edits(dir, files) ==
    IF ~dir.is_dir THEN {[is_dir |-> TRUE, files |-> <<>>]}
    ELSE {d \in
            {[is_dir |-> FALSE, files |-> <<>>]}
              \cup {[dir EXCEPT !.files = SubSeq(@, 1, Len(@) - 1)]}
              \cup {[dir EXCEPT !.files = Append(@, FileAt(f, Len(@) + 1))] :
                       f \in {g \in files : Len(dir.files) < MaxFiles}}
              \cup {[dir EXCEPT !.files[i] = FileAt(f, i)] :
                       i \in DOMAIN dir.files, f \in files} :
            d # dir /\ StemsDistinct(d.files)}

\* The user edits, adds or removes a style file while the program runs.
EditFiles ==
    /\ directory' \in Edits(directory, ReloadFiles(required))
    /\ UNCHANGED boardVars
    /\ UNCHANGED <<required, STYLE_MAP, raised, reloaded>>
    /\ UNCHANGED gameVars

\* (reload as written if the loader filled the live map itself)
reload_styles_in_place ==
    /\ LET res == LoaderOf(required, directory) IN
          /\ raised' = res.raised
          /\ STYLE_MAP' = res.style_map @@ STYLE_MAP
          /\ reloaded' = (reloaded \/ res.raised = NoError)
    /\ op' = "reload_styles"
    /\ argColumn' = None
    /\ argPiece' = None
    /\ ret' = None
    /\ out' = <<>>
    /\ UNCHANGED <<rows, columns, board, before, dropped, board_style, parts>>
    /\ UNCHANGED <<required, directory>>
    /\ UNCHANGED gameVars

\* reload_styles() (reload_piece_styles() in Piece.py): the global is
\* rebound when the loader returns; when it raises, the assignment is not
\* reached.
reload_styles ==
    /\ LET res == LoaderOf(required, directory) IN
          /\ raised' = res.raised
          /\ STYLE_MAP' = IF res.raised = NoError THEN res.style_map ELSE STYLE_MAP
          /\ reloaded' = (reloaded \/ res.raised = NoError)
    /\ op' = "reload_styles"
    /\ argColumn' = None
    /\ argPiece' = None
    /\ ret' = None
    /\ out' = <<>>
    /\ UNCHANGED <<rows, columns, board, before, dropped, board_style, parts>>
    /\ UNCHANGED <<required, directory>>
    /\ UNCHANGED gameVars

\* print_board of the Board that exists.
PrintExisting ==
    /\ rows > 0
    /\ CallPrintBoard

NextReload ==
    \/ EditFiles
    \/ reload_styles
    \/ PrintExisting

SpecReload == InitReload /\ [][NextReload]_vars
\* ================================================================ claims
\* The grid b has rows x columns cells.
Shape(b) ==
    /\ DOMAIN b = 0..(rows - 1)
    /\ \A r \in 0..(rows - 1) : DOMAIN b[r] = 0..(columns - 1)

AllEmpty(b) == \A r \in 0..(rows - 1) : \A c \in 0..(columns - 1) : b[r][c] = None

\* The cells in which the grid differs from the grid on entry to the last call.
Changed ==
    {rc \in (0..(rows - 1)) \X (0..(columns - 1)) : board[rc[1]][rc[2]] # before[rc[1]][rc[2]]}

InGrid(r, c) == 0 <= r /\ r < rows /\ 0 <= c /\ c < columns

\* The eight ways to walk along a line of the grid.
Steps == {d \in {-1, 0, 1} \X {-1, 0, 1} : d # <<0, 0>>}

\* Four consecutive cells, all inside the grid, on one horizontal, vertical or
\* diagonal line, all holding t: stated from any end of the run.
HasRun(b, t) ==
    \E r \in 0..(rows - 1) : \E c \in 0..(columns - 1) :
        /\ b[r][c] = t
        /\ \E d \in Steps : \A i \in 1..3 :
               /\ InGrid(r + i * d[1], c + i * d[2])
               /\ b[r + i * d[1]][c + i * d[2]] = t

\* How many drops in a row column c of grid b accepts, by drop_piece itself.
RECURSIVE Accepts(_, _, _)
Accepts(b, c, fuel) ==
    LET r == DropRow(b, rows, columns, c) IN
    IF r < 0 \/ fuel = 0 THEN 0
    ELSE 1 + Accepts(SetCell(b, rows, columns, r, c, "X"), c, fuel - 1)

\* C1: the N-th successful drop into a column that was empty lands in row
\* rows-1-(N-1) and returns True, for every N up to rows; a drop into a column
\* that took rows drops returns False and leaves the grid as it was.  (Spec)
C1_GravityFillOrder ==
    (op = "drop_piece" /\ 0 <= argColumn /\ argColumn < columns) =>
        LET n == dropped[argColumn] IN
        IF ret
        THEN /\ n \in 1..rows
             /\ board[rows - 1 - (n - 1)][argColumn] = argPiece
             /\ before[rows - 1 - (n - 1)][argColumn] = None
        ELSE /\ n = rows
             /\ board = before

\* C1 witness: a drop refused by a column that took rows drops, while another
\* column holds tokens too.
C1_Witness ==
    /\ op = "drop_piece"
    /\ 0 <= argColumn /\ argColumn < columns
    /\ ret = FALSE
    /\ rows >= 3
    /\ dropped[argColumn] = rows
    /\ \E c \in 0..(columns - 1) : c # argColumn /\ dropped[c] > 0

\* C2: check_for_win(token) returns True exactly when four consecutive cells
\* inside the grid, on one horizontal, vertical or diagonal line, all hold the
\* token: no run through a grid edge, and a run from whichever end.  (SpecWin)
C2_WinIffRun ==
    op = "check_for_win" => (ret <=> HasRun(board, argPiece))

\* C2 witness: check_for_win answered False on a grid where three cells of a
\* down-left diagonal and the cell that continues it through the left edge
\* (the last column of the next row) hold the token.
C2_Witness ==
    /\ op = "check_for_win"
    /\ ret = FALSE
    /\ rows >= 4 /\ columns >= 4
    /\ board[0][2] = argPiece
    /\ board[1][1] = argPiece
    /\ board[2][0] = argPiece
    /\ board[3][columns - 1] = argPiece

\* C2 second case: check_for_win answered True for a down-left diagonal.
C2_WitnessWin ==
    /\ op = "check_for_win"
    /\ ret = TRUE
    /\ rows >= 4 /\ columns >= 4
    /\ \A i \in 0..3 : board[i][3 - i] = argPiece

\* C3: drop_piece with column < 0 or column >= columns returns False and
\* changes no cell.  (Spec)
C3_OutOfRangeDrop ==
    (op = "drop_piece" /\ (argColumn < 0 \/ argColumn >= columns)) =>
        /\ ret = FALSE
        /\ Shape(board)
        /\ Changed = {}

\* C3 witness: a drop at column -1 refused on a board that holds tokens.
C3_Witness ==
    /\ op = "drop_piece"
    /\ argColumn = -1
    /\ ret = FALSE
    /\ ~AllEmpty(board)

\* C4: a drop_piece that returns True changes exactly one cell, from empty to
\* the dropped token, in the requested column; one that returns False changes
\* none; the grid keeps its rows x columns shape.  (Spec)
C4_DropFrame ==
    op = "drop_piece" =>
        /\ Shape(board)
        /\ Shape(before)
        /\ IF ret
           THEN /\ 0 <= argColumn /\ argColumn < columns
                /\ \E r \in 0..(rows - 1) :
                       /\ Changed = {<<r, argColumn>>}
                       /\ before[r][argColumn] = None
                       /\ board[r][argColumn] = argPiece
           ELSE Changed = {}

\* C4 witness: a successful drop onto a column that already holds a token,
\* next to another column that holds one.
C4_Witness ==
    /\ op = "drop_piece"
    /\ ret = TRUE
    /\ rows >= 2 /\ columns >= 2
    /\ dropped[argColumn] >= 2
    /\ \E c \in 0..(columns - 1) : c # argColumn /\ dropped[c] > 0

\* C5: under drop_piece, check_for_win and print_board a cell that holds a
\* token keeps that token, and the grid stays rows x columns with rows and
\* columns as constructed; only reset_board clears cells.  (Spec)
C5_CellsKept ==
    /\ [](/\ Shape(board)
          /\ op \in {"drop_piece", "check_for_win", "print_board"} =>
                \A r \in 0..(rows - 1) : \A c \in 0..(columns - 1) :
                    before[r][c] # None => board[r][c] = before[r][c])
    /\ [][rows' = rows /\ columns' = columns]_vars

\* C5 witness: a failed drop onto a column filled with both tokens.
C5_Witness ==
    /\ op = "drop_piece"
    /\ 0 <= argColumn /\ argColumn < columns
    /\ ret = FALSE
    /\ rows >= 2
    /\ board[0][argColumn] # board[1][argColumn]
    /\ board[0][argColumn] # argPiece
\* The glyph main.py gives player p.
GlyphOf(p) == IF p = 1 THEN piece_one ELSE piece_two

\* The step is a turn of main.py whose drop_piece returned True.
TurnSucceeds == pc = "drop" /\ ret' = TRUE

\* C6 as stated: the active player and the active token both change exactly
\* in the iterations whose drop succeeded; every other iteration leaves the
\* player, the token and the grid as they were.  (SpecGame)
C6_AsStated ==
    [][/\ (current_player' # current_player) <=> TurnSucceeds
       /\ (current_piece' # current_piece) <=> TurnSucceeds
       /\ ~TurnSucceeds => board' = board]_vars

\* C6 amended: the active player changes exactly in the iterations whose drop
\* succeeded, and the active token is then the new player's glyph, so it
\* changes too when the two glyphs differ; a non-numeric input, an
\* out-of-range column (input 0 is column -1) and a full column fail the
\* drop, leave player, token and grid as they were and lead back to the top
\* of the loop.  (SpecGame)
C6_TurnOnlyOnSuccess ==
    [][/\ (current_player' # current_player) <=> TurnSucceeds
       /\ current_piece' = (IF current_player' = 1 THEN piece_one' ELSE piece_two')
       /\ piece_one # piece_two => ((current_piece' # current_piece) <=> TurnSucceeds)
       /\ ~TurnSucceeds => (board' = board /\ current_piece' = current_piece)
       /\ (pc = "input" /\ pc' = "loop") => ~TurnSucceeds
       /\ pc = "drop" =>
             /\ pc' = "loop"
             /\ (choice < 0 \/ choice >= columns) => ~TurnSucceeds
             /\ (0 <= choice /\ choice < columns
                 /\ \A r \in 0..(rows - 1) : board[r][choice] # None) => ~TurnSucceeds
             /\ (0 <= choice /\ choice < columns
                 /\ \E r \in 0..(rows - 1) : board[r][choice] = None) => TurnSucceeds]_vars

\* C6 witness: player 2 is back at the top of the loop after a drop into a
\* full column was refused.
C6_Witness ==
    /\ pc = "loop"
    /\ op = "drop_piece"
    /\ ret = FALSE
    /\ 0 <= argColumn /\ argColumn < columns
    /\ current_player = 2
    /\ current_piece = piece_two
    /\ piece_one # piece_two

\* C7: whenever main.py is about to call drop_piece, it has called
\* check_for_win since its last successful drop.  (SpecGame)
C7_WinCheckedBeforeNextDrop ==
    pc = "drop" => win_checked

\* C8: reset_board leaves every cell empty and the grid rows x columns; then
\* check_for_win is False for every token and every column accepts exactly
\* rows drops, as on a new board.  (Spec)
C8_ResetBoard ==
    op = "reset_board" =>
        /\ Shape(board)
        /\ AllEmpty(board)
        /\ board = EmptyBoard(rows, columns)
        /\ \A t \in Tokens : ~CheckForWin(board, rows, columns, t)
        /\ \A c \in 0..(columns - 1) : Accepts(board, c, rows + 1) = rows

\* C8 witness: reset_board was called on a grid with a win on it.
C8_Witness ==
    /\ op = "reset_board"
    /\ \E t \in Tokens : HasRun(before, t)

\* C9: a new board of R rows and C columns has R x C cells, all empty, and
\* check_for_win returns False on it for any token.  (Spec)
C9_FreshBoard ==
    /\ op = "__init__" =>
          /\ Shape(board)
          /\ AllEmpty(board)
          /\ \A t \in Tokens : ~CheckForWin(board, rows, columns, t)
    /\ (op = "check_for_win" /\ AllEmpty(before)) => ret = FALSE

\* C9 witness: check_for_win has answered on an empty board large enough to
\* hold a run in every direction.
C9_Witness ==
    /\ op = "check_for_win"
    /\ AllEmpty(before)
    /\ rows >= RunLen
    /\ columns >= RunLen

\* C10: check_for_win and print_board change no cell and leave the grid
\* rows x columns, whatever they return.  (Spec)
C10_QueriesReadOnly ==
    op \in {"check_for_win", "print_board"} =>
        /\ Shape(board)
        /\ Shape(before)
        /\ board = before

\* C10 witness: check_for_win has returned True.
C10_Witness ==
    /\ op = "check_for_win"
    /\ ret = TRUE
    /\ ~AllEmpty(board)

\* The grid b with column c emptied: the rest of the board.
WithoutColumn(b, c) ==
    [r \in 0..(rows - 1) |-> [q \in 0..(columns - 1) |-> IF q = c THEN None ELSE b[r][q]]]

\* Column c of the grid holds no token other than t.
OnlyToken(c, t) == \A r \in 0..(rows - 1) : board[r][c] \in {None, t}

\* Token t lies in a column next to column c.
BesideColumn(c, t) ==
    \E q \in {c - 1, c + 1} : \E r \in 0..(rows - 1) :
        0 <= q /\ q < columns /\ board[r][q] = t

\* What check_for_win(t) returns on the grid, and did return if it was the
\* last call.
WinIs(t, v) ==
    /\ CheckForWin(board, rows, columns, t) = v
    /\ (op = "check_for_win" /\ argPiece = t) => ret = v

\* C11 as stated: with at least four rows, four drops of token t into a
\* column that was empty fill its four bottom rows and make check_for_win(t)
\* True; after the third of them it is False when the rest of the board
\* holds no run of t.  (SpecSolo)
C11_AsStated ==
    \A c \in 0..(columns - 1) : \A t \in Tokens :
        (rows >= RunLen /\ OnlyToken(c, t)) =>
            /\ dropped[c] = RunLen =>
                  /\ \A i \in 1..RunLen : board[rows - i][c] = t
                  /\ WinIs(t, TRUE)
            /\ (dropped[c] = RunLen - 1 /\ ~HasRun(WithoutColumn(board, c), t)) =>
                  WinIs(t, FALSE)

\* C11 amended: as above, and after the third drop check_for_win(t) is False
\* when the rest of the board holds no run of t and no column next to the
\* column holds t.  (SpecSolo)
C11_FourInColumn ==
    \A c \in 0..(columns - 1) : \A t \in Tokens :
        (rows >= RunLen /\ OnlyToken(c, t)) =>
            /\ dropped[c] = RunLen =>
                  /\ \A i \in 1..RunLen : board[rows - i][c] = t
                  /\ \A r \in 0..(rows - RunLen - 1) : board[r][c] = None
                  /\ WinIs(t, TRUE)
            /\ (/\ dropped[c] = RunLen - 1
                /\ ~HasRun(WithoutColumn(board, c), t)
                /\ ~BesideColumn(c, t)) =>
                  WinIs(t, FALSE)

\* C11 witness: check_for_win returned True after the fourth drop into a
\* column of a board of at least four rows that holds tokens elsewhere.
C11_Witness ==
    /\ op = "check_for_win"
    /\ ret = TRUE
    /\ rows >= RunLen
    /\ \E c \in 0..(columns - 1) :
          /\ dropped[c] = RunLen
          /\ \A q \in 0..(columns - 1) : q # c => dropped[q] <= 1
          /\ \E q \in 0..(columns - 1) : q # c /\ dropped[q] = 1

\* C11 second case: check_for_win returned False after the third drop.
C11_WitnessThree ==
    /\ op = "check_for_win"
    /\ ret = FALSE
    /\ rows >= RunLen
    /\ \E c \in 0..(columns - 1) :
          /\ dropped[c] = RunLen - 1
          /\ \A q \in 0..(columns - 1) : q # c => dropped[q] = 0

\* C17: no floating pieces: in every reachable state, whatever drop_piece and
\* reset_board calls led to it, every cell below a token, in the same
\* column, holds a token.  (Spec)
C17_NoFloating ==
    \A c \in 0..(columns - 1) : \A r \in 0..(rows - 1) :
        board[r][c] # None =>
            \A q \in (r + 1)..(rows - 1) : board[q][c] # None

\* C17 witness: a drop has landed on top of another token while one column
\* holds a single token and one is empty.
C17_Witness ==
    /\ op = "drop_piece"
    /\ ret = TRUE
    /\ dropped[argColumn] >= 2
    /\ board[rows - 1][argColumn] # argPiece
    /\ \E c \in 0..(columns - 1) : dropped[c] = 1
    /\ \E c \in 0..(columns - 1) : dropped[c] = 0

\* Number of cells of the grid that hold token t.
CountOf(t) ==
    Cardinality({k \in 0..(rows * columns - 1) : board[k \div columns][k % columns] = t})

\* C18: in main.py, when the two glyphs differ, the tokens of player one on
\* the board minus those of player two is 0 or 1, it is 0 exactly when
\* player 1 is the active player, and the active token is the active
\* player's glyph.  (SpecGame)
C18_Alternation ==
    piece_one # piece_two =>
        LET d == CountOf(piece_one) - CountOf(piece_two) IN
        /\ d \in {0, 1}
        /\ d = 0 <=> current_player = 1
        /\ current_player \in {1, 2}
        /\ current_piece = GlyphOf(current_player)

\* C18 witness: player 2 is still to move after a refused drop, with two
\* tokens of player one and one of player two on the board.
C18_Witness ==
    /\ piece_one # piece_two
    /\ pc = "loop"
    /\ op = "drop_piece"
    /\ ret = FALSE
    /\ current_player = 2
    /\ CountOf(piece_one) = 2
    /\ CountOf(piece_two) = 1

\* C19: a win is monotone under drops: when check_for_win(t) is True on the
\* grid, it is True after any drop_piece by any caller (and after
\* check_for_win and print_board); only reset_board ends it.  (SpecSmall)
C19_WinMonotone ==
    op \in {"drop_piece", "check_for_win", "print_board"} =>
        \A t \in Tokens :
            CheckForWin(before, rows, columns, t) =>
                /\ CheckForWin(board, rows, columns, t)
                /\ (op = "check_for_win" /\ argPiece = t) => ret = TRUE

\* C19 witness: the other token was dropped, with success, on a grid that
\* held a win.
C19_Witness ==
    /\ op = "drop_piece"
    /\ ret = TRUE
    /\ \E t \in Tokens :
          /\ t # argPiece
          /\ CheckForWin(before, rows, columns, t)
          /\ CheckForWin(board, rows, columns, t)

\* C19 second case: reset_board ended a win.
C19_WitnessReset ==
    /\ op = "reset_board"
    /\ \E t \in Tokens :
          /\ CheckForWin(before, rows, columns, t)
          /\ ~CheckForWin(board, rows, columns, t)

\* Every column of the grid is full.
BoardFull == \A r \in 0..(rows - 1) : \A c \in 0..(columns - 1) : board[r][c] # None

\* C20: main.py's loop has no terminating state: game_is_on is never False
\* and the loop always has a next step; once every column is full, every
\* step (whatever is typed) leaves the grid, the active player and the
\* active token as they were, so the board stays full.  (SpecGame)
C20_NeverEnds ==
    /\ [](game_is_on = TRUE /\ pc \in {"loop", "input", "drop"} /\ ENABLED NextGame)
    /\ [][BoardFull =>
            /\ board' = board
            /\ current_player' = current_player
            /\ current_piece' = current_piece
            /\ game_is_on' = TRUE
            /\ pc = "drop" => ret' = FALSE]_vars

\* C20 witness: back at the top of the loop after a column number was typed
\* on a full board of four cells.
C20_Witness ==
    /\ pc = "loop"
    /\ game_is_on = TRUE
    /\ BoardFull
    /\ rows * columns = MaxPieces
    /\ op = "drop_piece"
    /\ ret = FALSE
    /\ 0 <= argColumn /\ argColumn < columns

\* Character i of string s, counted from 0.
CharAt(s, i) == SubSeq(s, i + 1, i + 1)

\* What a cell shows: its token, a space when it is empty.
Shown(cell) == IF cell = None THEN " " ELSE cell

\* Width of the row label and its ": " (the boards have at most ten rows).
PrefixWidth == 3

\* Where the segment of column c starts in the mid line of row r: after the
\* prefix, the segments before it and one space after each.
RECURSIVE SegmentStart(_, _)
SegmentStart(r, c) ==
    IF c = 0 THEN PrefixWidth
    ELSE SegmentStart(r, c - 1) + (Len(parts.mid) - 1) + Len(Shown(board[r][c - 1])) + 1

\* The line is PrefixWidth characters, then the glyph once per column, the
\* copies one space apart.
GlyphLine(line, glyph) ==
    /\ Len(line) = PrefixWidth + columns * (Len(glyph) + 1) - 1
    /\ \A c \in 0..(columns - 1) :
           LET start == PrefixWidth + c * (Len(glyph) + 1) IN
           /\ SubSeq(line, start + 1, start + Len(glyph)) = glyph
           /\ c > 0 => CharAt(line, start - 1) = " "

\* The line is PrefixWidth characters, then per column the mid glyph with
\* the one character at index len // 2 replaced by what the cell shows and
\* every other character kept, the segments one space apart.
MidLine(line, r) ==
    LET mid == parts.mid
        at == Len(mid) \div 2
    IN  /\ Len(line) = SegmentStart(r, columns) - 1
        /\ \A c \in 0..(columns - 1) :
               LET start == SegmentStart(r, c)
                   text == Shown(board[r][c])
               IN  /\ \A i \in 0..(Len(mid) - 1) :
                          /\ i < at => CharAt(line, start + i) = CharAt(mid, i)
                          /\ i > at => CharAt(line, start + i + Len(text) - 1) = CharAt(mid, i)
                   /\ SubSeq(line, start + at + 1, start + at + Len(text)) = text
                   /\ c > 0 => CharAt(line, start - 1) = " "

\* C16: print_board prints, for every row, three lines of columns segments
\* one space apart, after the row prefix: the top glyphs, the mid glyphs with
\* exactly the character at index len(mid) // 2 replaced by the cell's token
\* (a space for an empty cell) and every other character kept, and the
\* bottom glyphs.  (SpecRender)
C16_ThreeLinesPerRow ==
    op = "print_board" =>
        /\ Len(out) = 3 * rows + 2
        /\ \A r \in 0..(rows - 1) :
               /\ GlyphLine(out[3 * r + 1], parts.top)
               /\ MidLine(out[3 * r + 2], r)
               /\ GlyphLine(out[3 * r + 3], parts.bottom)
               /\ SubSeq(out[3 * r + 2], 1, PrefixWidth) = Str(r) \o ": "

\* C16 witness: print_board has printed, with a mid glyph of even length, a
\* grid of two rows that holds a one-character token, a longer one and an
\* empty cell.
C16_Witness ==
    /\ op = "print_board"
    /\ Len(parts.mid) % 2 = 0
    /\ rows >= 2 /\ columns >= 2
    /\ board[1][0] = "<>"
    /\ board[1][1] = "X"
    /\ board[0][1] = None

\* The style definitions of the folder, as <<file, item, name, keys>>: a file
\* whose root has the required keys defines the style named by its stem;
\* every other file defines one style per root item, with the keys of the
\* item's object (none when the item is no object).
Definitions ==
    UNION {IF required \subseteq ItemKeys(directory.files[i].items)
             THEN {<<i, 0, directory.files[i].stem, ItemKeys(directory.files[i].items)>>}
             ELSE {<<i, j, directory.files[i].items[j][1],
                     IF "obj" \in DOMAIN directory.files[i].items[j][2]
                       THEN DOMAIN directory.files[i].items[j][2].obj ELSE {}>> :
                      j \in 1..Len(directory.files[i].items)} :
           i \in 1..Len(directory.files)}

\* No name is defined twice, every record has the required keys, and
\* "default" is defined.
DirectoryValid ==
    /\ directory.is_dir
    /\ \A d, e \in Definitions : d # e => d[3] # e[3]
    /\ \A d \in Definitions : required \subseteq d[4]
    /\ \E d \in Definitions : d[3] = "default"

\* C12: the load returns a map exactly when no style name is defined twice
\* over the files, every style record has the required keys and "default" is
\* defined; the map then holds the styles defined, each with the required
\* keys; in every other case the load raises and no map is bound.  A folder
\* whose only file defines just "default" with the required keys loads.
\* (SpecLoad)
C12_LoadsIffValid ==
    op = "import" =>
        /\ raised = NoError <=> DirectoryValid
        /\ raised = NoError =>
              /\ DOMAIN STYLE_MAP = {d[3] : d \in Definitions}
              /\ \A n \in DOMAIN STYLE_MAP : DOMAIN STYLE_MAP[n] = required
              /\ "default" \in DOMAIN STYLE_MAP
        /\ raised # NoError => STYLE_MAP = EmptyMap
        /\ (/\ directory.is_dir
            /\ Cardinality(Definitions) = 1
            /\ \A d \in Definitions : d[3] = "default" /\ required \subseteq d[4]) =>
              raised = NoError

\* C12 witness: the load returned a map of two styles, one from a
\* single-style file and one from a bundle.
C12_Witness ==
    /\ op = "import"
    /\ raised = NoError
    /\ DOMAIN STYLE_MAP = StyleNames
    /\ Len(directory.files) = 2
    /\ \E d, e \in Definitions : d[2] = 0 /\ e[2] = 1

\* C12 second case: the load raised on a folder of complete records without
\* "default".
C12_WitnessNoDefault ==
    /\ op = "import"
    /\ raised.what = "no default"
    /\ Definitions # {}

\* C13: whenever a file of the folder holds a record that lacks required
\* keys, in a single-style file or in a bundle, the load raises the
\* missing-keys error, naming exactly the keys such a record lacks.
\* (SpecLoad)
C13_MissingKeysNamed ==
    (op = "import" /\ directory.is_dir /\ \E d \in Definitions : ~(required \subseteq d[4])) =>
        /\ raised.type = "ValueError"
        /\ raised.what = "missing keys"
        /\ \E d \in Definitions :
               /\ ~(required \subseteq d[4])
               /\ raised.name = d[3]
               /\ raised.keys = required \ d[4]

\* C13 for the folder whose one file is a single-style record that lacks
\* keys: the load raises AttributeError.
C13_SingleFileLacksKey ==
    /\ op = "import"
    /\ Len(directory.files) = 1
    /\ directory.files[1].stem = "default"
    /\ ItemKeys(directory.files[1].items) \subseteq required
    /\ raised.type = "AttributeError"

\* The step is a call of reload_styles: the files are as they were.
ReloadStep == op' = "reload_styles" /\ directory' = directory

\* C14: reload is all-or-nothing: a reload whose load raises leaves the live
\* map as it was, and one whose load returns makes the live map the map of
\* the files.  (SpecReload)
C14_ReloadAllOrNothing ==
    [][ReloadStep =>
          /\ raised' # NoError => STYLE_MAP' = STYLE_MAP
          /\ raised' = NoError =>
                /\ DirectoryValid
                /\ STYLE_MAP' = LoaderOf(required, directory).style_map]_vars

\* C14 witness: a reload raised on the second file of the folder, after the
\* first had given "default" glyphs other than the live ones.
C14_Witness ==
    /\ op = "reload_styles"
    /\ raised # NoError
    /\ Len(directory.files) = 2
    /\ LET seen == LoaderOf(required, directory).style_map IN
          /\ "default" \in DOMAIN seen
          /\ seen["default"] # STYLE_MAP["default"]

\* C15: after a reload that succeeded, print_board of a Board constructed
\* before it prints with the glyphs the live map now gives the Board's
\* style.  (SpecReload)
C15_BoardSeesReload ==
    (op = "print_board" /\ reloaded /\ board_style \in DOMAIN STYLE_MAP) =>
        out = PrintLines(board, rows, columns, STYLE_MAP[board_style])
====
